---------------------------- MODULE Spec2Model ----------------------------
(***************************************************************************)
(* A model of the notebook lda-sagemaker-demo.ipynb: the cells that parse  *)
(* the sparse corpus into the dense matrix, split it, upload the training  *)
(* rows, run the training job, fetch the model artifact, deploy the        *)
(* endpoint, query it and delete it.  Each code cell is one action; an     *)
(* exception that no handler of the cell catches stops the run.            *)
(***************************************************************************)
EXTENDS Integers, Sequences, FiniteSets, TLC

VARIABLES
    pc,                     \* the next cell to run, or "done" / "halted"
    error,                  \* the uncaught exception that stopped the run
    documents,              \* the sparse documents the corpus file was written from
    vocabulary_size,        \* len(word)
    word_counts,            \* the stripped lines of nyt_data.txt, as characters
    bags_of_words,          \* the dense matrix, a sequence of rows
    nrows,                  \* bags_of_words.shape[0]
    nbags_of_words,
    nbags_of_words_training,
    nbags_of_words_test,
    bags_of_words_training, \* the slice [start, stop) of bags_of_words
    bags_of_words_test,     \* the slice [start, stop) of bags_of_words
    calls,                  \* the remote calls made so far, in order
    s3_train_rows,          \* records of the uploaded lda.data, 0 - 1 before
    mini_batch_size,        \* hyperparameter of the estimator, 0 - 1 when unset
    job,                    \* status of the remote training job
    elapsed,                \* status polls made while lda.fit waits
    printed,                \* whether the except clause printed a RuntimeError
    cwd,                    \* the files of the working directory
    model_fname,            \* the parameter file the loader picked
    endpoint,               \* status of the hosted endpoint
    results,                \* rows of the last prediction result
    requests,               \* rows carried by each prediction request sent
    deletes                 \* outcomes of the delete_endpoint calls, in order

vars == <<pc, error, documents, vocabulary_size, word_counts, bags_of_words,
          nrows, nbags_of_words, nbags_of_words_training, nbags_of_words_test,
          bags_of_words_training, bags_of_words_test, calls, s3_train_rows,
          mini_batch_size,
          job, elapsed, printed, cwd, model_fname, endpoint, results, requests,
          deletes>>

parseVars == <<documents, vocabulary_size, word_counts>>
splitVars == <<nbags_of_words, nbags_of_words_training, nbags_of_words_test,
               bags_of_words_training, bags_of_words_test>>
remoteVars == <<calls, s3_train_rows, mini_batch_size, job, elapsed, printed, cwd,
                model_fname, endpoint, results, requests, deletes>>

(***************************************************************************)
(* Bounds of the model.                                                    *)
(***************************************************************************)
MaxVocab == 2
MaxDocs == 2
MaxTokens == 2
MaxCount == 12

Min(a, b) == IF a <= b THEN a ELSE b

(***************************************************************************)
(* Text.  A string is a sequence of one-character strings.                 *)
(***************************************************************************)
DigitChars == <<"0", "1", "2", "3", "4", "5", "6", "7", "8", "9">>

IsDigit(c) == \E d \in 1..10 : DigitChars[d] = c

DigitVal(c) == (CHOOSE d \in 1..10 : DigitChars[d] = c) - 1

\* str.split(sep): every occurrence of sep separates two fields, empty
\* fields are kept, and the empty string splits into one empty field.
RECURSIVE SplitFrom(_, _, _, _)
SplitFrom(s, sep, i, cur) ==
    IF i > Len(s) THEN <<cur>>
    ELSE IF s[i] = sep THEN <<cur>> \o SplitFrom(s, sep, i + 1, <<>>)
    ELSE SplitFrom(s, sep, i + 1, Append(cur, s[i]))

Split(s, sep) == SplitFrom(s, sep, 1, <<>>)

\* str.strip(): leading and trailing blanks removed.
RECURSIVE Strip(_)
Strip(s) ==
    IF s = <<>> THEN s
    ELSE IF Head(s) = " " THEN Strip(Tail(s))
    ELSE IF s[Len(s)] = " " THEN Strip(SubSeq(s, 1, Len(s) - 1))
    ELSE s

RECURSIVE DigitsValue(_, _)
DigitsValue(s, acc) ==
    IF s = <<>> THEN acc ELSE DigitsValue(Tail(s), 10 * acc + DigitVal(Head(s)))

\* int(text): blanks around the number are dropped, one sign may lead, and
\* at least one digit must follow; anything else raises ValueError.
IntOf(text) ==
    LET s == Strip(text)
        signed == s # <<>> /\ Head(s) \in {"-", "+"}
        body == IF signed THEN Tail(s) ELSE s
        ok == body # <<>> /\ \A k \in 1..Len(body) : IsDigit(body[k])
    IN  IF ~ok THEN [ok |-> FALSE, val |-> 0]
        ELSE [ok |-> TRUE,
              val |-> IF signed /\ Head(s) = "-" THEN 0 - DigitsValue(body, 0)
                      ELSE DigitsValue(body, 0)]

(***************************************************************************)
(* The corpus file.  A document is a sequence of tokens; a token is either *)
(* a pair (index, count) written as index:count, or a piece of text that   *)
(* is no such pair.  The file holds one line per document, the tokens      *)
(* joined by commas.                                                       *)
(***************************************************************************)
RECURSIVE NatText(_)
NatText(n) ==
    IF n < 10 THEN <<DigitChars[n + 1]>>
    ELSE Append(NatText(n \div 10), DigitChars[(n % 10) + 1])

IntText(n) == IF n < 0 THEN <<"-">> \o NatText(0 - n) ELSE NatText(n)

Pair(i, c) == [pair |-> TRUE, idx |-> i, cnt |-> c, text |-> <<>>]

Raw(t) == [pair |-> FALSE, idx |-> 0, cnt |-> 0, text |-> t]

TokenText(t) == IF t.pair THEN IntText(t.idx) \o <<":">> \o IntText(t.cnt) ELSE t.text

RECURSIVE LineText(_)
LineText(doc) ==
    IF doc = <<>> THEN <<>>
    ELSE IF Len(doc) = 1 THEN TokenText(doc[1])
    ELSE TokenText(doc[1]) \o <<",">> \o LineText(Tail(doc))

\* Text that is no index:count pair: an empty token, a token without the
\* separator, and tokens whose index or count is no integer.
MalformedTokens ==
    {Raw(<<>>), Raw(<<"1">>), Raw(<<"x", ":", "1">>), Raw(<<"1", ":", "x">>)}

Tokens(V) ==
    {Pair(i, c) : i \in (0 - 1)..(V + 1), c \in {1, MaxCount}} \cup MalformedTokens

SeqsUpTo(S, n) == UNION {[1..k -> S] : k \in 0..n}

Lines(V) == SeqsUpTo(Tokens(V), MaxTokens)

\* One-token lines that are valid for every vocabulary of size V.
PlainLines(V) == {<<Pair(i, 1)>> : i \in 1..V}

\* The corpora the parser is run on: n documents, document p any line of
\* Lines(V) and the others plain (all of them plain when p > n).
Corpus(n, p, line, plain) == [k \in 1..n |-> IF k = p THEN line ELSE plain[k]]

(***************************************************************************)
(* CorpusParser: the cell that translates the lines into the matrix.       *)
(***************************************************************************)
\* np.zeros([rows, cols])
Zeros(rows, cols) == [r \in 1..rows |-> [c \in 1..cols |-> 0]]

\* The 1-indexed vocabulary position of the file, as a 0-indexed column.
ColumnIndexUnshifted(idx) == idx

ColumnIndex(idx) == idx - 1

\* numpy's index along an axis of the given size: a negative index counts
\* from the end, and an index outside [-size, size) raises IndexError.
AxisIndex(i, size) ==
    IF 0 <= i /\ i < size THEN [ok |-> TRUE, at |-> i]
    ELSE IF 0 - size <= i /\ i < 0 THEN [ok |-> TRUE, at |-> i + size]
    ELSE [ok |-> FALSE, at |-> 0]

\* bags_of_words[row, int(col.split(':')[0])-1] = int(col.split(':')[1])
\* for one token col of line row (0-indexed).  The right-hand side is
\* evaluated first, then the subscript, then the cell is stored.
StoreToken(M, row, col, V) ==
    LET fields == Split(col, ":")
        count == IF Len(fields) >= 2 THEN IntOf(fields[2]) ELSE [ok |-> FALSE, val |-> 0]
        index == IntOf(fields[1])
        at == AxisIndex(ColumnIndex(index.val), V)
    IN  IF Len(fields) < 2 THEN [err |-> "IndexError", M |-> M]
        ELSE IF ~count.ok \/ ~index.ok THEN [err |-> "ValueError", M |-> M]
        ELSE IF ~at.ok THEN [err |-> "IndexError", M |-> M]
        ELSE [err |-> "none", M |-> [M EXCEPT ![row + 1][at.at + 1] = count.val]]

\* for col in word_counts[row].split(','), from token k on
RECURSIVE StoreTokens(_, _, _, _, _)
StoreTokens(M, row, cols, k, V) ==
    IF k > Len(cols) THEN [err |-> "none", M |-> M]
    ELSE LET one == StoreToken(M, row, cols[k], V)
         IN  IF one.err # "none" THEN one
             ELSE StoreTokens(one.M, row, cols, k + 1, V)

\* for row in range(len(word_counts)), from line row on
RECURSIVE StoreRows(_, _, _, _)
StoreRows(M, lines, row, V) ==
    IF row >= Len(lines) THEN [err |-> "none", M |-> M]
    ELSE LET one == StoreTokens(M, row, Split(lines[row + 1], ","), 1, V)
         IN  IF one.err # "none" THEN one
             ELSE StoreRows(one.M, lines, row + 1, V)

BuildBagsOfWords(lines, V) == StoreRows(Zeros(Len(lines), V), lines, 0, V)

NoSlice == [start |-> 0, stop |-> 0]

\* The state before the first cell with the corpus file holding docs.
Start(docs, V) ==
    /\ pc = "parse"
    /\ error = "none"
    /\ documents = docs
    /\ vocabulary_size = V
    /\ word_counts = [k \in 1..Len(docs) |-> Strip(LineText(docs[k]))]
    /\ bags_of_words = <<>>
    /\ nrows = 0
    /\ nbags_of_words = 0
    /\ nbags_of_words_training = 0
    /\ nbags_of_words_test = 0
    /\ bags_of_words_training = NoSlice
    /\ bags_of_words_test = NoSlice
    /\ calls = <<>>
    /\ s3_train_rows = 0 - 1
    /\ mini_batch_size = 0 - 1
    /\ job = "None"
    /\ elapsed = 0
    /\ printed = FALSE
    /\ model_fname = "none"
    /\ endpoint = "None"
    /\ results = 0 - 1
    /\ requests = <<>>
    /\ deletes = <<>>

ParseCell ==
    /\ pc = "parse"
    /\ LET built == BuildBagsOfWords(word_counts, vocabulary_size)
       IN  /\ bags_of_words' = built.M
           /\ nrows' = Len(word_counts)
           /\ error' = built.err
           /\ pc' = IF built.err = "none" THEN "split" ELSE "halted"
    /\ UNCHANGED <<parseVars, splitVars, remoteVars>>

InitParse ==
    /\ \E V \in 1..MaxVocab, n \in 0..MaxDocs, p \in 1..MaxDocs :
          \E line \in Lines(V), plain \in [1..n -> PlainLines(V)] :
              Start(Corpus(n, p, line, plain), V)
    /\ cwd = {}

SpecParse == InitParse /\ [][ParseCell]_vars

(***************************************************************************)
(* DatasetSplitter: the cell that caps the rows and splits them.           *)
(***************************************************************************)
RowCap == 10000

MaxTotalRows == 10050

\* min(bags_of_words.shape[0], 10_000)
NBagsOfWords(shape0) == Min(shape0, RowCap)

Pow2(k) == 2 ^ k

\* The float 0.95 is the double 8556839292003942 * 2^-53; these are the
\* 16-bit limbs of that 53-bit significand, least significant first.
Significand95 == <<26214, 26214, 26214, 30>>

Limb == 65536

\* The exact product significand * n, as five 16-bit limbs (n < 2^15).
ExactProduct(n) ==
    LET a0 == Significand95[1] * n
        a1 == Significand95[2] * n + (a0 \div Limb)
        a2 == Significand95[3] * n + (a1 \div Limb)
        a3 == Significand95[4] * n + (a2 \div Limb)
    IN  <<a0 % Limb, a1 % Limb, a2 % Limb, a3 % Limb, a3 \div Limb>>

RECURSIVE BitLength(_)
BitLength(x) == IF x = 0 THEN 0 ELSE 1 + BitLength(x \div 2)

\* The exact product with its fraction dropped and no rounding.
IntOfProduct95Chopped(n) ==
    LET P == ExactProduct(n) IN (P[4] \div 32) + P[5] * 2048

\* int(0.95 * n): the product of two doubles is the exact product rounded
\* to 53 significant bits, ties to even, and int() drops the fraction.
\* With P the exact product scaled by 2^53, hi is its integer part and s
\* the number of low bits the rounding drops.
IntOfProduct95(n) ==
    LET P == ExactProduct(n)
        hi == (P[4] \div 32) + P[5] * 2048
        s == BitLength(hi)
        dropped == P[1] % Pow2(s)
        kept == P[1] \div Pow2(s)
        roundUp == /\ s >= 1
                   /\ \/ dropped > Pow2(s - 1)
                      \/ dropped = Pow2(s - 1) /\ kept % 2 = 1
        allOnes == /\ kept = Pow2(16 - s) - 1
                   /\ P[2] = Limb - 1
                   /\ P[3] = Limb - 1
                   /\ P[4] % 32 = 31
    IN  IF roundUp /\ allOnes THEN hi + 1 ELSE hi

\* A slice that always starts at the first row.
SliceFromFirstRow(start, stop, shape0) == [start |-> 0, stop |-> Min(stop, shape0)]

\* bags_of_words[start:stop], both clamped to the rows there are
Slice(start, stop, shape0) ==
    [start |-> Min(start, shape0), stop |-> Min(stop, shape0)]

SliceLen(sl) == IF sl.stop > sl.start THEN sl.stop - sl.start ELSE 0

SplitCell ==
    /\ pc = "split"
    /\ LET n == NBagsOfWords(nrows)
           training == IntOfProduct95(n)
       IN  /\ nbags_of_words' = n
           /\ nbags_of_words_training' = training
           /\ nbags_of_words_test' = n - training
           /\ bags_of_words_training' = Slice(0, training, nrows)
           /\ bags_of_words_test' = Slice(training, n, nrows)
    /\ pc' = "upload"
    /\ UNCHANGED <<error, parseVars, bags_of_words, nrows, remoteVars>>

\* The split cell reads bags_of_words.shape[0] only: the states after the
\* parse cell, told apart by the number of rows.
InitSplit ==
    /\ \E n \in 0..MaxTotalRows :
          /\ nrows = n
          /\ vocabulary_size = 1
    /\ pc = "split"
    /\ error = "none"
    /\ documents = <<>>
    /\ word_counts = <<>>
    /\ bags_of_words = <<>>
    /\ nbags_of_words = 0
    /\ nbags_of_words_training = 0
    /\ nbags_of_words_test = 0
    /\ bags_of_words_training = NoSlice
    /\ bags_of_words_test = NoSlice
    /\ calls = <<>>
    /\ s3_train_rows = 0 - 1
    /\ mini_batch_size = 0 - 1
    /\ job = "None"
    /\ elapsed = 0
    /\ printed = FALSE
    /\ cwd = {}
    /\ model_fname = "none"
    /\ endpoint = "None"
    /\ results = 0 - 1
    /\ requests = <<>>
    /\ deletes = <<>>

SpecSplit == InitSplit /\ [][SplitCell]_vars


(***************************************************************************)
(* The remote steps.  What the provider answers is not decided by the      *)
(* notebook: every call either succeeds or raises.                         *)
(***************************************************************************)
MaxRows == 4
MaxPolls == 3
MaxWait == 2

Range(f) == {f[k] : k \in DOMAIN f}

Halt(exception) ==
    /\ pc' = "halted"
    /\ error' = exception

\* recordio_protobuf_serializer(bags_of_words_training): one record per row
RecordCount(sl) == SliceLen(sl)

\* The cell that serializes the training rows and uploads them to S3.
UploadCell ==
    /\ pc = "upload"
    /\ calls' = Append(calls, "upload_fileobj")
    /\ \/ /\ s3_train_rows' = RecordCount(bags_of_words_training)
          /\ pc' = "estimator"
          /\ UNCHANGED error
       \/ /\ Halt("ClientError")
          /\ UNCHANGED s3_train_rows
    /\ UNCHANGED <<parseVars, bags_of_words, nrows, splitVars, mini_batch_size,
                   job, elapsed, printed, cwd, model_fname, endpoint, results,
                   requests, deletes>>

\* The cells that look up the container, build the Estimator and set the
\* hyperparameters: mini_batch_size = nbags_of_words_training.
EstimatorCell ==
    /\ pc = "estimator"
    /\ mini_batch_size' = nbags_of_words_training
    /\ pc' = "fit"
    /\ UNCHANGED <<error, parseVars, bags_of_words, nrows, splitVars, calls,
                   s3_train_rows, job, elapsed, printed, cwd, model_fname,
                   endpoint, results, requests, deletes>>

\* lda.fit({'train': s3_train_data}), first half: the training job is
\* submitted.  A request the provider rejects raises ClientError, which the
\* except clause does not catch.
FitSubmit ==
    /\ pc = "fit"
    /\ calls' = Append(calls, "create_training_job")
    /\ \/ /\ job' = "InProgress"
          /\ pc' = "fit_wait"
          /\ UNCHANGED error
       \/ /\ Halt("ClientError")
          /\ UNCHANGED job
    /\ UNCHANGED <<parseVars, bags_of_words, nrows, splitVars, s3_train_rows,
                   mini_batch_size, elapsed, printed, cwd, model_fname,
                   endpoint, results, requests, deletes>>

\* What the try statement does with an exception fit raises for a job that
\* ended in Failed: a RuntimeError is printed and the run goes on with the
\* next cell, anything else stops the run.
AfterFailedJob(exception) ==
    IF exception = "RuntimeError"
    THEN /\ printed' = TRUE
         /\ pc' = "download"
         /\ UNCHANGED error
    ELSE /\ Halt(exception)
         /\ UNCHANGED printed

\* lda.fit, second half: it waits, asking for the status of the job until
\* the job has ended.  There is no deadline.
FitPoll ==
    /\ pc = "fit_wait"
    /\ \/ /\ elapsed < MaxPolls
          /\ elapsed' = elapsed + 1
          /\ UNCHANGED <<pc, error, job, printed>>
       \/ /\ job' = "Completed"
          /\ pc' = "download"
          /\ UNCHANGED <<error, elapsed, printed>>
       \/ /\ job' = "Failed"
          /\ \E exception \in {"RuntimeError", "ValueError"} :
                AfterFailedJob(exception)
          /\ UNCHANGED elapsed
    /\ UNCHANGED <<parseVars, bags_of_words, nrows, splitVars, calls,
                   s3_train_rows, mini_batch_size, cwd, model_fname, endpoint,
                   results, requests, deletes>>

(***************************************************************************)
(* ModelArtifactLoader: the cell that downloads and unpacks the artifact.  *)
(***************************************************************************)
\* Files an earlier run may have left in the working directory, and files
\* the archive of the job may hold.
LeftoverFiles == {"model_algo-0"}

ArchiveFiles == {"model_algo-1", "model_algo-2"}

\* fname.startswith('model_'), over the file names of the model
StartsWithModel(fname) == fname \in {"model_algo-0", "model_algo-1", "model_algo-2"}

\* [fname for fname in os.listdir('.') if fname.startswith('model_')]
ModelList(dir) == {fname \in dir : StartsWithModel(fname)}

DownloadCell ==
    /\ pc = "download"
    /\ calls' = Append(calls, "download_file")
    /\ \/ /\ Halt("ClientError")
          /\ UNCHANGED <<cwd, model_fname>>
       \/ \E archive \in SUBSET ArchiveFiles :
             LET extracted == cwd \cup {"lda.data"} \cup archive
             IN  /\ cwd' = extracted
                 /\ IF ModelList(extracted) = {}
                    THEN /\ Halt("IndexError")
                         /\ UNCHANGED model_fname
                    ELSE \* os.listdir lists in no particular order
                         /\ model_fname' \in ModelList(extracted)
                         /\ pc' = "deploy"
                         /\ UNCHANGED error
    /\ UNCHANGED <<parseVars, bags_of_words, nrows, splitVars, s3_train_rows,
                   mini_batch_size, job, elapsed, printed, endpoint, results,
                   requests, deletes>>

(***************************************************************************)
(* InferenceClient: deploy, predict, delete.                               *)
(***************************************************************************)
DeployCell ==
    /\ pc = "deploy"
    /\ calls' = Append(calls, "deploy")
    /\ \/ /\ endpoint' = "InService"
          /\ pc' = "predict_sample"
          /\ UNCHANGED error
       \/ /\ Halt("ClientError")
          /\ UNCHANGED endpoint
    /\ UNCHANGED <<parseVars, bags_of_words, nrows, splitVars, s3_train_rows,
                   mini_batch_size, job, elapsed, printed, cwd, model_fname,
                   results, requests, deletes>>

\* The most rows the provider takes in one prediction request.
BatchLimit == 2

\* lda_inference.predict(rows): one request carrying all the rows, which
\* the provider answers with one prediction per row, or with an error; a
\* request above its limit it answers with an error only.
Predict(rows, next) ==
    /\ endpoint = "InService"
    /\ calls' = Append(calls, "invoke_endpoint")
    /\ requests' = Append(requests, SliceLen(rows))
    /\ \/ /\ SliceLen(rows) <= BatchLimit
          /\ results' = SliceLen(rows)
          /\ pc' = next
          /\ UNCHANGED error
       \/ /\ Halt("ClientError")
          /\ UNCHANGED results
    /\ UNCHANGED <<parseVars, bags_of_words, nrows, splitVars, s3_train_rows,
                   mini_batch_size, job, elapsed, printed, cwd, model_fname,
                   endpoint, deletes>>

\* results = lda_inference.predict(bags_of_words_test[:3])
PredictSampleCell ==
    /\ pc = "predict_sample"
    /\ Predict(Slice(bags_of_words_test.start,
                     bags_of_words_test.start + 3,
                     bags_of_words_test.stop), "predict_all")

\* results = lda_inference.predict(bags_of_words_test)
PredictAllCell ==
    /\ pc = "predict_all"
    /\ Predict(bags_of_words_test, "delete")

\* sagemaker.Session().delete_endpoint(lda_inference.endpoint): the provider
\* deletes an endpoint that exists and answers an error for one that does
\* not; the cell has no handler, so the error is raised.
DeleteEndpoint ==
    /\ calls' = Append(calls, "delete_endpoint")
    /\ IF endpoint = "InService"
       THEN /\ endpoint' = "Deleted"
            /\ deletes' = Append(deletes, "ok")
            /\ pc' = "done"
            /\ UNCHANGED error
       ELSE /\ deletes' = Append(deletes, "ClientError")
            /\ Halt("ClientError")
            /\ UNCHANGED endpoint
    /\ UNCHANGED <<parseVars, bags_of_words, nrows, splitVars, s3_train_rows,
                   mini_batch_size, job, elapsed, printed, cwd, model_fname,
                   results, requests>>

DeleteCell ==
    /\ pc = "delete"
    /\ DeleteEndpoint

\* The delete cell run once more after the last cell.
DeleteCellAgain ==
    /\ pc = "done"
    /\ DeleteEndpoint

(***************************************************************************)
(* The notebook, run from its first cell.                                  *)
(***************************************************************************)
\* Corpora of up to MaxRows one-token lines over a vocabulary of one word;
\* index 2 is outside the vocabulary.
RunCorpora == SeqsUpTo({<<Pair(1, 1)>>, <<Pair(2, 1)>>}, MaxRows)

Init ==
    /\ \E docs \in RunCorpora : Start(docs, 1)
    /\ cwd \in SUBSET LeftoverFiles

Next ==
    \/ ParseCell
    \/ SplitCell
    \/ UploadCell
    \/ EstimatorCell
    \/ FitSubmit
    \/ FitPoll
    \/ DownloadCell
    \/ DeployCell
    \/ PredictSampleCell
    \/ PredictAllCell
    \/ DeleteCell
    \/ DeleteCellAgain

Spec == Init /\ [][Next]_vars

\* The same run on corpora of up to MaxBatchRows plain lines, whose test
\* rows outnumber the limit of the provider.
MaxBatchRows == 61

InitBatches ==
    /\ \E n \in 0..MaxBatchRows : Start([k \in 1..n |-> <<Pair(1, 1)>>], 1)
    /\ cwd \in SUBSET LeftoverFiles

SpecBatches == InitBatches /\ [][Next]_vars

(***************************************************************************)
(* Properties.                                                             *)
(***************************************************************************)
ParseDone == pc \notin {"parse"}

\* A valid sparse corpus: every line holds at least one token, every token
\* is an index:count pair, the indices lie in [1, vocabulary_size] and no
\* index occurs twice in a line.
ValidDocument(doc, V) ==
    /\ Len(doc) >= 1
    /\ \A k \in 1..Len(doc) : doc[k].pair /\ doc[k].idx \in 1..V
    /\ \A k, l \in 1..Len(doc) : doc[k].idx = doc[l].idx => k = l

ValidCorpus == \A i \in 1..Len(documents) : ValidDocument(documents[i], vocabulary_size)

\* The count document doc gives for vocabulary index w, 0 when it gives none.
CountGiven(doc, w) ==
    IF \E k \in 1..Len(doc) : doc[k].idx = w
    THEN doc[CHOOSE k \in 1..Len(doc) : doc[k].idx = w].cnt
    ELSE 0

\* C1: for every valid sparse corpus the parser builds the matrix, and cell
\* (i, j) holds the count document i gives for index j+1, 0 when it gives
\* none; the line "1:3,2:1" over four words is the row [3,1,0,0].
C1_CellsAreCounts ==
    /\ (ParseDone /\ ValidCorpus) =>
          /\ error = "none"
          /\ Len(bags_of_words) = Len(documents)
          /\ \A i \in 1..Len(documents) :
                /\ Len(bags_of_words[i]) = vocabulary_size
                /\ \A j \in 0..(vocabulary_size - 1) :
                      bags_of_words[i][j + 1] = CountGiven(documents[i], j + 1)
    /\ BuildBagsOfWords(<<<<"1", ":", "3", ",", "2", ":", "1">>>>, 4)
          = [err |-> "none", M |-> <<<<3, 1, 0, 0>>>>]

C1_Witness ==
    /\ pc = "split"
    /\ ValidCorpus
    /\ Len(documents) = 2
    /\ Len(documents[2]) = 2
    /\ bags_of_words[2][2] = MaxCount
    /\ bags_of_words[1][2] = 0

\* A token that is malformed or carries an index outside [1, vocabulary_size].
BadToken(t, V) == ~t.pair \/ t.idx \notin 1..V

HasBadToken ==
    \E i \in 1..Len(documents) : \E k \in 1..Len(documents[i]) :
        BadToken(documents[i][k], vocabulary_size)

\* C2: when a token of the corpus is malformed or carries an index outside
\* [1, vocabulary_size], parsing ends in an error and no matrix reaches the
\* later steps.
C2_BadTokenIsAnError ==
    (ParseDone /\ HasBadToken) => (pc = "halted" /\ error # "none")

SplitDone == pc \notin {"parse", "split", "halted"} \/ (pc = "halted" /\ calls # <<>>)

\* C3: train_count + test_count = min(cap, total_rows) and train_count =
\* floor(0.95 * min(cap, total_rows)); 10,000 rows give 9500 and 500.
C3_SplitCounts ==
    SplitDone =>
        /\ nbags_of_words_training + nbags_of_words_test = Min(RowCap, nrows)
        /\ nbags_of_words_training = (95 * Min(RowCap, nrows)) \div 100
        /\ SliceLen(bags_of_words_training) = nbags_of_words_training
        /\ SliceLen(bags_of_words_test) = nbags_of_words_test
        /\ (nrows = 10000 =>
               nbags_of_words_training = 9500 /\ nbags_of_words_test = 500)

C3_Witness ==
    /\ pc = "upload"
    /\ nrows > RowCap
    /\ nbags_of_words_training = 9500
    /\ nbags_of_words_test = 500

\* C4: a training job that ended in Failed stops the run with an error:
\* the artifact is not downloaded and no endpoint is deployed after it.
C4_FailedJobStopsTheRun ==
    job = "Failed" =>
        /\ pc = "halted"
        /\ error # "none"
        /\ "download_file" \notin Range(calls)
        /\ "deploy" \notin Range(calls)

Ended == pc \in {"done", "halted"}

\* C5: no run ends with a deployed endpoint still in service.
C5_EndpointReleasedAtEnd == Ended => endpoint # "InService"

\* C7: no training job is submitted when the split left no training rows.
C7_NoJobOnEmptyTrainingSet ==
    "create_training_job" \in Range(calls) => nbags_of_words_training > 0

\* C8: every call of release after the first returns without raising and
\* leaves the endpoint released.
C8_ReleaseIsIdempotent ==
    \A k \in 2..Len(deletes) : deletes[k] = "ok" /\ endpoint = "Deleted"

\* C9: the wait for the training job ends once the maximum wait has passed.
C9_WaitEndsAtDeadline == pc = "fit_wait" => elapsed <= MaxWait

\* C10: parameters are decoded only when exactly one file of the working
\* directory matches the name convention.
C10_ExactlyOneParameterFile ==
    model_fname # "none" => Cardinality(ModelList(cwd)) = 1

\* C11: a predict over more rows than the provider takes at once is sent as
\* requests of at most that many rows each, and the predictions returned
\* are one per row of the test set.
C11_OversizedBatchIsSplit ==
    /\ \A k \in 1..Len(requests) : requests[k] <= BatchLimit
    /\ pc \in {"delete", "done"} => results = SliceLen(bags_of_words_test)

\* C12: with N = min(total_rows, 10000) the train rows are [0, floor(0.95 N))
\* and the test rows [floor(0.95 N), N), two ranges of the original order
\* that share no row; the test rows are not empty when N >= 1, and the train
\* rows are empty exactly when N <= 1.
C12_SplitRanges ==
    SplitDone =>
        LET N == Min(nrows, RowCap)
            boundary == (95 * N) \div 100
        IN  /\ bags_of_words_training = [start |-> 0, stop |-> boundary]
            /\ bags_of_words_test = [start |-> boundary, stop |-> N]
            /\ \A r \in 0..(N - 1) :
                  ~(/\ bags_of_words_training.start <= r
                    /\ r < bags_of_words_training.stop
                    /\ bags_of_words_test.start <= r
                    /\ r < bags_of_words_test.stop)
            /\ (N >= 1 => SliceLen(bags_of_words_test) >= 1)
            /\ (SliceLen(bags_of_words_training) = 0 <=> N <= 1)

C12_Witness ==
    /\ pc = "upload"
    /\ nrows = 1
    /\ SliceLen(bags_of_words_training) = 0
    /\ bags_of_words_test = [start |-> 0, stop |-> 1]
=============================================================================
